---- MODULE Spec2Model ----
(***************************************************************************)
(* Model of willkg/linux-symbol-scraping.                                  *)
(*                                                                         *)
(*   scanpackages.py  scrape_all_ddebs: crawl the package pool, run        *)
(*                    process_deb on every x86 archive through a thread    *)
(*                    pool, checkpoint into two AutoSaveDict caches.       *)
(*   scrapedebs.py    make_build_id_map: build the index of munged build   *)
(*                    ids from the ddebs cache file.                       *)
(*                                                                         *)
(* Specification Spec is the scraper, with process termination at any      *)
(* step and later invocations.  Specification SpecIndex is the index       *)
(* build over bounded cache contents.                                      *)
(***************************************************************************)
EXTENDS Integers, Sequences, FiniteSets, TLC

\* ------------------------------------------------------------- bounds
\* multiprocessing.cpu_count(): pool size and chunk size of the run.
ChunkSize == 2
\* number of invocations of the script that are followed
MaxRuns == 3
\* number of failures the environment injects (fetch error, non-200, tool exit)
MaxFaults == 1

\* ------------------------------------------------- the repository
\* What the server lists.  "main" is http://ddebs.ubuntu.com/pool/main/.
MainUrl == "main"

Listing(url) ==
    CASE url = "main" -> <<"a", "b">>
      [] url = "a"    -> <<"p1", "p2">>
      [] url = "b"    -> <<"p3">>
      [] url = "p1"   -> <<"d1_amd64", "d2_i386", "d3_amd64">>
      [] url = "p2"   -> <<"d4_amd64", "d5_armhf">>
      [] url = "p3"   -> <<"d6_i386">>
      [] OTHER        -> << >>

AllPackages == {"p1", "p2", "p3"}
AllDebs == {"d1_amd64", "d2_i386", "d3_amd64", "d4_amd64", "d5_armhf", "d6_i386"}

\* the part of the file name after the last '_' (scrape_x86_debs, line 181)
ArchOf(deb) ==
    CASE deb \in {"d1_amd64", "d3_amd64", "d4_amd64"} -> "amd64"
      [] deb \in {"d2_i386", "d6_i386"}               -> "i386"
      [] OTHER                                        -> "armhf"

\* ------------------------------------------------- build identifiers
\* Build ids are named; Chars gives the characters readelf printed.
Chars(id) ==
    CASE id = "idA" -> <<"9","9","c","2","1","0","6","c","4","4","1","8","9","e","3","5",
                         "4","e","1","8","2","6","a","a","2","8","5","a","0","c","c","f",
                         "7","c","b","d","f","7","2","6">>
      [] id = "idB" -> <<"9","9","c","2","1","0","6","c","4","4","1","8","9","e","3","5",
                         "4","e","1","8","2","6","a","a","2","8","5","a","0","c","c","f",
                         "0","0","0","0","0","0","0","1">>
      [] id = "idC" -> <<"0","1","2","3","4","5","6","7","8","9","a","b","c","d","e","f",
                         "f","e","d","c","b","a","9","8","7","6","5","4","3","2","1","0",
                         "0","1","2","3","4","5","6","7">>
      [] id = "idD" -> <<"a","1","b","2","c","3","d","4","e","5","f","6","0","7","1","8",
                         "2","9","3","a","4","b","5","c","6","d","7","e","8","f","9","0",
                         "1","2","3","4","5","6","7","8">>
      [] id = "md5" -> <<"0","1","2","3","4","5","6","7","8","9","a","b","c","d","e","f",
                         "f","e","d","c","b","a","9","8","7","6","5","4","3","2","1","0">>
      [] OTHER      -> << >>

\* the files dpkg-deb unpacks from an archive: path, whether `file` says ELF,
\* and the Build ID line of readelf ("none" when there is none)
FilesOf(deb) ==
    CASE deb = "d1_amd64" -> << [path |-> "/usr/lib/libfoo.so", elf |-> TRUE,  bid |-> "idA"],
                                [path |-> "/usr/share/doc",     elf |-> FALSE, bid |-> "none"] >>
      [] deb = "d2_i386"  -> << [path |-> "/usr/lib/libfoo.so", elf |-> TRUE,  bid |-> "idB"] >>
      [] deb = "d3_amd64" -> << [path |-> "/usr/lib/libold.so", elf |-> TRUE,  bid |-> "md5"] >>
      [] deb = "d4_amd64" -> << [path |-> "/usr/lib/libbar.so", elf |-> TRUE,  bid |-> "idC"] >>
      [] deb = "d6_i386"  -> << [path |-> "/usr/lib/libbar.so", elf |-> TRUE,  bid |-> "idC"],
                                [path |-> "/usr/bin/bar",       elf |-> TRUE,  bid |-> "none"] >>
      [] OTHER            -> << >>

\* ------------------------------------------------- helpers
EmptyMap == [x \in {} |-> TRUE]

Put(m, k, v) == [x \in (DOMAIN m) \cup {k} |-> IF x = k THEN v ELSE m[x]]

Range(s) == {s[i] : i \in DOMAIN s}

SelectSeqNotIn(s, S) == SelectSeq(s, LAMBDA x : x \notin S)

\* itertools.islice(i, chunk_size) of chunk(): the first n elements
Take(s, n) == SubSeq(s, 1, IF Len(s) < n THEN Len(s) ELSE n)

Drop(s, n) == SubSeq(s, (IF Len(s) < n THEN Len(s) ELSE n) + 1, Len(s))

\* ------------------------------------------------- files
\* A file on disk: absent, a complete JSON document, or the flushed prefix of
\* one (what the stdio buffer has written so far), which json.load rejects.
Absent == [kind |-> "absent", doc |-> EmptyMap]

Partial == [kind |-> "partial", doc |-> EmptyMap]

Json(d) == [kind |-> "json", doc |-> d]

\* ------------------------------------------------- pure functions of the code
\* GetBuildID: None unless `file` says ELF; the first Build ID line of readelf
\* whose id has 40 characters, else None.  A failing tool raises.
NoId == "none"

GetBuildID(f) ==
    IF ~f.elf THEN NoId
    ELSE IF f.bid # NoId /\ Len(Chars(f.bid)) = 40 THEN f.bid
    ELSE NoId

RECURSIVE WalkFiles(_)
WalkFiles(files) ==
    IF files = << >> THEN << >>
    ELSE LET rest == WalkFiles(Tail(files))
             buildID == GetBuildID(Head(files))
         IN IF buildID # NoId THEN << <<Head(files).path, buildID>> >> \o rest
            ELSE rest

\* process_deb: fetch, unpack, walk, probe.  There is a finally and no except:
\* a failing fetch_to_file, dpkg-deb (check_call) or probe (check_output)
\* raises out of the task.  outcome is what the environment does to this task.
Outcomes == {"ok", "fetch", "unpack", "probe"}

process_deb(deb, outcome) ==
    IF outcome = "fetch" THEN [raised |-> TRUE, value |-> << >>]
    ELSE IF outcome = "unpack" THEN [raised |-> TRUE, value |-> << >>]
    ELSE IF outcome = "probe" /\ FilesOf(deb) # << >> THEN [raised |-> TRUE, value |-> << >>]
    ELSE [raised |-> FALSE, value |-> WalkFiles(FilesOf(deb))]

\* scrape_html_directory_listing: the links of a 200 response, nothing otherwise
\* (a requests exception is raised where the generator is consumed)
scrape_html_directory_listing(url, response) ==
    IF response = "200" THEN Listing(url) ELSE << >>

X86 == {"amd64", "i386"}

\* the listing without the architecture test
scrape_any_debs(url, response) == scrape_html_directory_listing(url, response)

scrape_x86_debs(url, response) ==
    SelectSeq(scrape_html_directory_listing(url, response), LAMBDA deb : ArchOf(deb) \in X86)

\* zip(package_urls, executor.map(scrape_x86_debs, urls_chunk)): the i-th url of
\* the whole work list beside the i-th generator of the chunk
ZipPairs(package_urls, urls_chunk) ==
    [i \in 1..(IF Len(package_urls) < Len(urls_chunk) THEN Len(package_urls) ELSE Len(urls_chunk))
        |-> <<package_urls[i], urls_chunk[i]>>]

\* ------------------------------------------------- state
Caches == {"ddebs", "pp"}

VARIABLES
    disk,          \* /tmp/ddebs.json and /tmp/processed-packages.json
    allpk,         \* /tmp/allpackages
    mem,           \* the two AutoSaveDict objects
    pc,            \* where the main thread is
    topq,          \* top-level directories still to list (scrape_package_list)
    package_list,  \* scrape_package_list's list
    package_urls,  \* the work list of scrape_all_ddebs
    rest,          \* what chunk() has not yet yielded
    pairs,         \* the zip of the current chunk, not yet iterated
    cur,           \* the (url, listed package) pair being processed
    debs,          \* the archives of the current package not in ddebs
    task,          \* the futures of executor.map(process_deb, debs)
    wq,            \* results of the batch not yet stored by the for loop
    setting,       \* the __setitem__ call in progress
    tmp,           \* the NamedTemporaryFile of that call, as on disk
    writing,       \* per cache, the threads inside __setitem__
    run, prev, clean, faults,                       \* history of invocations
    calls, fetches, durable, atStart,               \* what this run did
    listFailed, taskFailed, abortCause,
    \* the index build (scrapedebs.py)
    ipc, ddebsFile, pkgCache, ddebsMtime, cacheMtime, iterOrder, id_map,
    lastCall,      \* what the last make_build_id_map call found and did
    \* munge_build_id on its own
    mpc, raw_id, munged, again,
    \* the resolution pass (scrapedebs.py main)
    rpc,              \* where main is
    missing_symbols,  \* the (debug_file, debug_id) requests
    debs_to_process,  \* the plan: archive -> [(filename, sym_filename)]
    planOrder,        \* the order debs_to_process.iteritems() submitted the tasks in
    rtask,            \* the futures of executor.map(process_deb, ...)
    taken,            \* how many results the for loop has consumed
    zip,              \* symbols.zip on disk
    file_list,        \* the symbol files written
    fetched,          \* per archive, how many times it was downloaded
    rfaults           \* failures so far in the pass

scraperVars == <<disk, allpk, mem, pc, topq, package_list, package_urls, rest, pairs,
                 cur, debs, task, wq, setting, tmp, writing, run, prev, clean, faults,
                 calls, fetches, durable, atStart, listFailed, taskFailed, abortCause>>

idxVars == <<ipc, ddebsFile, pkgCache, ddebsMtime, cacheMtime, iterOrder, id_map, lastCall>>

mungeVars == <<mpc, raw_id, munged, again>>

resolveVars == <<rpc, missing_symbols, debs_to_process, planOrder, rtask, taken, zip,
                 file_list, fetched, rfaults>>

indexVars == <<idxVars, mungeVars, resolveVars>>

vars == <<scraperVars, indexVars>>

NoSet == [c |-> "none", k |-> "none"]

NoPair == << >>

\* a fresh process: nothing in memory
FreshMemory ==
    /\ mem = [c \in Caches |-> EmptyMap]
    /\ topq = << >>
    /\ package_list = << >>
    /\ package_urls = << >>
    /\ rest = << >>
    /\ pairs = << >>
    /\ cur = NoPair
    /\ debs = << >>
    /\ task = EmptyMap
    /\ wq = << >>
    /\ setting = NoSet
    /\ tmp = Absent
    /\ writing = [c \in Caches |-> {}]

FreshRun ==
    /\ calls = {}
    /\ fetches = {}
    /\ listFailed = {}
    /\ taskFailed = {}
    /\ abortCause = "none"

ScraperInit ==
    /\ disk = [c \in Caches |-> Absent]
    /\ allpk = Absent
    /\ pc = "load_ddebs"
    /\ FreshMemory
    /\ FreshRun
    /\ run = 1
    /\ prev = "none"
    /\ clean = TRUE
    /\ faults = 0
    /\ durable = {}
    /\ atStart = {}

\* ------------------------------------------------- frames
ResetMemory ==
    /\ mem' = [c \in Caches |-> EmptyMap]
    /\ topq' = << >>
    /\ package_list' = << >>
    /\ package_urls' = << >>
    /\ rest' = << >>
    /\ pairs' = << >>
    /\ cur' = NoPair
    /\ debs' = << >>
    /\ task' = EmptyMap
    /\ wq' = << >>
    /\ setting' = NoSet
    /\ tmp' = Absent
    /\ writing' = [c \in Caches |-> {}]

histVars == <<run, prev, clean, durable, atStart>>

poolVars == <<debs, task, wq>>

setVars == <<setting, tmp, writing>>

listVars == <<topq, package_list>>

workVars == <<package_urls, rest, pairs, cur>>

\* an uncaught exception in the main thread ends the run
Raise(cause) ==
    /\ pc' = "aborted"
    /\ abortCause' = cause

\* what a fetch can answer: a 200, another status, or a requests exception.
\* The environment injects at most MaxFaults failures.
Responses == {"200", "non200", "exc"}

CanAnswer(r) == r = "200" \/ faults < MaxFaults

Fault(r) == faults' = (IF r = "200" THEN faults ELSE faults + 1)

\* ------------------------------------------------- AutoSaveDict.__init__
\* os.path.isfile, then json.load with no except: a file that does not decode
\* raises ValueError out of scrape_all_ddebs.
AutoSaveDictLoad(file) ==
    IF file.kind = "absent" THEN [raised |-> FALSE, value |-> EmptyMap]
    ELSE IF file.kind = "json" THEN [raised |-> FALSE, value |-> file.doc]
    ELSE [raised |-> TRUE, value |-> EmptyMap]

AutoSaveDictInit(c, at, next) ==
    /\ pc = at
    /\ LET r == AutoSaveDictLoad(disk[c])
       IN IF r.raised
          THEN /\ Raise("cache_load")
               /\ UNCHANGED mem
          ELSE /\ mem' = [mem EXCEPT ![c] = r.value]
               /\ pc' = next
               /\ UNCHANGED abortCause
    /\ UNCHANGED <<disk, allpk, listVars, workVars, poolVars, setVars, histVars, faults,
                   calls, fetches, listFailed, taskFailed, indexVars>>

InitDdebs == AutoSaveDictInit("ddebs", "load_ddebs", "load_pp")

InitProcessedPackages == AutoSaveDictInit("pp", "load_pp", "list")

\* ------------------------------------------------- scrape_package_list
\* /tmp/allpackages exists: json.load of it is the list
PackageListCached ==
    /\ pc = "list"
    /\ allpk.kind # "absent"
    /\ IF allpk.kind = "json"
       THEN /\ package_list' = allpk.doc
            /\ pc' = "filter"
            /\ UNCHANGED abortCause
       ELSE /\ Raise("allpk_load")
            /\ UNCHANGED package_list
    /\ UNCHANGED <<disk, allpk, mem, topq, workVars, poolVars, setVars, histVars, faults,
                   calls, fetches, listFailed, taskFailed, indexVars>>

\* no /tmp/allpackages: fetch the main listing
PackageListMain ==
    /\ pc = "list"
    /\ allpk.kind = "absent"
    /\ \E r \in Responses :
         /\ CanAnswer(r)
         /\ Fault(r)
         /\ fetches' = fetches \cup {MainUrl}
         /\ IF r = "exc"
            THEN /\ Raise("listing")
                 /\ UNCHANGED topq
            ELSE /\ topq' = scrape_html_directory_listing(MainUrl, r)
                 /\ pc' = "list_top"
                 /\ UNCHANGED abortCause
    /\ UNCHANGED <<disk, allpk, mem, package_list, workVars, poolVars, setVars, histVars,
                   calls, listFailed, taskFailed, indexVars>>

\* one turn of the for loop: list(scrape_html_directory_listing(url)), extend;
\* then json.dump(package_list, open('/tmp/allpackages', 'wb')): the open truncates
PackageListTop ==
    /\ pc = "list_top"
    /\ topq # << >>
    /\ \E r \in Responses :
         /\ CanAnswer(r)
         /\ Fault(r)
         /\ fetches' = fetches \cup {Head(topq)}
         /\ IF r = "exc"
            THEN /\ Raise("listing")
                 /\ UNCHANGED <<topq, package_list, allpk>>
            ELSE /\ package_list' = package_list \o scrape_html_directory_listing(Head(topq), r)
                 /\ topq' = Tail(topq)
                 /\ allpk' = Partial
                 /\ pc' = "list_dump"
                 /\ UNCHANGED abortCause
    /\ UNCHANGED <<disk, mem, workVars, poolVars, setVars, histVars,
                   calls, listFailed, taskFailed, indexVars>>

\* the dump reaches the file when the file object is collected
PackageListDump ==
    /\ pc = "list_dump"
    /\ allpk' = Json(package_list)
    /\ pc' = "list_top"
    /\ UNCHANGED <<disk, mem, listVars, workVars, poolVars, setVars, histVars, faults,
                   calls, fetches, listFailed, taskFailed, abortCause, indexVars>>

PackageListReturn ==
    /\ pc = "list_top"
    /\ topq = << >>
    /\ pc' = "filter"
    /\ UNCHANGED <<disk, allpk, mem, listVars, workVars, poolVars, setVars, histVars, faults,
                   calls, fetches, listFailed, taskFailed, abortCause, indexVars>>

\* ------------------------------------------------- scrape_all_ddebs
\* package_urls = [url for url in ... if url not in processed_packages]
FilterPackages ==
    /\ pc = "filter"
    /\ package_urls' = SelectSeqNotIn(package_list, DOMAIN mem["pp"])
    /\ rest' = package_urls'
    /\ pc' = "chunk"
    /\ UNCHANGED <<disk, allpk, mem, listVars, pairs, cur, poolVars, setVars, histVars, faults,
                   calls, fetches, listFailed, taskFailed, abortCause, indexVars>>

\* the pairs the inner for loop iterates for one chunk (line 210)
ChunkPairs(urls, urls_chunk) == ZipPairs(urls, urls_chunk)

\* for urls_chunk in chunk(package_urls, cpu_count()): the next chunk, zipped
NextChunk ==
    /\ pc = "chunk"
    /\ IF rest = << >>
       THEN /\ pc' = "done"
            /\ UNCHANGED <<rest, pairs>>
       ELSE /\ pairs' = ChunkPairs(package_urls, Take(rest, ChunkSize))
            /\ rest' = Drop(rest, ChunkSize)
            /\ pc' = "pkg"
    /\ UNCHANGED <<disk, allpk, mem, listVars, package_urls, cur, poolVars, setVars, histVars,
                   faults, calls, fetches, listFailed, taskFailed, abortCause, indexVars>>

\* debs = [deb for deb in debs if deb not in ddebs]: the generator runs here, in
\* the main thread; then executor.map(process_deb, debs) submits every archive
NewDebs(listed, ddebs) == SelectSeqNotIn(listed, DOMAIN ddebs)

NextPackage ==
    /\ pc = "pkg"
    /\ IF pairs = << >>
       THEN /\ pc' = "chunk"
            /\ UNCHANGED <<pairs, cur, poolVars, faults, fetches, listFailed, abortCause>>
       ELSE \E r \in Responses :
              /\ CanAnswer(r)
              /\ Fault(r)
              /\ fetches' = fetches \cup {Head(pairs)[2]}
              /\ listFailed' = (IF r = "200" THEN listFailed ELSE listFailed \cup {Head(pairs)[2]})
              /\ IF r = "exc"
                 THEN /\ Raise("listing")
                      /\ UNCHANGED <<pairs, cur, poolVars>>
                 ELSE /\ cur' = Head(pairs)
                      /\ pairs' = Tail(pairs)
                      /\ debs' = NewDebs(scrape_x86_debs(Head(pairs)[2], r), mem["ddebs"])
                      /\ task' = [d \in Range(debs') |->
                                    [st |-> "queued", result |-> << >>, outcome |-> "none"]]
                      /\ wq' = << >>
                      /\ pc' = "wait"
                      /\ UNCHANGED abortCause
    /\ UNCHANGED <<disk, allpk, mem, listVars, package_urls, rest, setVars, histVars,
                   calls, taskFailed, indexVars>>

\* ------------------------------------------------- the thread pool
Running == {d \in DOMAIN task : task[d].st = "running"}

Queued == {d \in DOMAIN task : task[d].st = "queued"}

InFlight == Running \cup Queued

\* the work queue is FIFO: the first queued archive of the batch
FirstQueued(d) ==
    \E i \in DOMAIN debs :
        /\ debs[i] = d
        /\ task[d].st = "queued"
        /\ \A j \in 1..(i - 1) : task[debs[j]].st # "queued"

\* a pool thread (there are cpu_count() of them) takes the next work item and
\* calls process_deb
WorkerStart(d) ==
    /\ pc = "wait"
    /\ d \in DOMAIN task
    /\ FirstQueued(d)
    /\ Cardinality(Running) < ChunkSize
    /\ task' = [task EXCEPT ![d].st = "running"]
    /\ calls' = calls \cup {d}
    /\ UNCHANGED <<disk, allpk, mem, pc, listVars, workVars, debs, wq, setVars, histVars,
                   faults, fetches, listFailed, taskFailed, abortCause, indexVars>>

\* a pool thread that stores its own result enters __setitem__ of ddebs
WorkerStoresResult(w, d) == [w EXCEPT !["ddebs"] = @ \cup {d}]

\* what the completion of a task does to the caches: process_deb returns its
\* list to the future and touches neither dict
WorkerCacheEffect(w, d) == w

\* process_deb returns or raises; the future keeps the result or the exception
WorkerFinish(d) ==
    /\ pc \in {"wait", "unwind"}
    /\ d \in Running
    /\ \E outcome \in Outcomes :
         LET r == process_deb(d, outcome)
         IN /\ (r.raised => faults < MaxFaults)
            /\ faults' = (IF r.raised THEN faults + 1 ELSE faults)
            /\ task' = [task EXCEPT ![d] = [st |-> IF r.raised THEN "failed" ELSE "done",
                                             result |-> r.value,
                                             outcome |-> outcome]]
            /\ taskFailed' = (IF r.raised THEN taskFailed \cup {d} ELSE taskFailed)
    /\ writing' = WorkerCacheEffect(writing, d)
    /\ UNCHANGED <<disk, allpk, mem, pc, listVars, workVars, debs, wq, setting, tmp, histVars,
                   calls, fetches, listFailed, abortCause, indexVars>>

\* zip(debs, executor.map(process_deb, debs)) is Python 2's zip: it takes every
\* result, in submission order, before the body of the for loop runs once
AllDone == \A d \in DOMAIN task : task[d].st = "done"

\* future.result() re-raises in the main thread: the first failed task, in
\* submission order, once everything submitted before it has returned
FirstFailure ==
    \E i \in DOMAIN debs :
        /\ task[debs[i]].st = "failed"
        /\ \A j \in 1..(i - 1) : task[debs[j]].st = "done"

CollectResults ==
    /\ pc = "wait"
    /\ AllDone
    /\ wq' = [i \in DOMAIN debs |-> <<debs[i], task[debs[i]].result>>]
    /\ pc' = "write"
    /\ UNCHANGED <<disk, allpk, mem, listVars, workVars, debs, task, setVars, histVars, faults,
                   calls, fetches, listFailed, taskFailed, abortCause, indexVars>>

\* the exception leaves the for loop: the result iterator cancels the futures
\* not yet started, and the with block's shutdown waits for the running ones
CollectRaises ==
    /\ pc = "wait"
    /\ FirstFailure
    /\ task' = [d \in DOMAIN task |->
                  IF task[d].st = "queued" THEN [task[d] EXCEPT !.st = "cancelled"] ELSE task[d]]
    /\ pc' = "unwind"
    /\ abortCause' = "task"
    /\ UNCHANGED <<disk, allpk, mem, listVars, workVars, debs, wq, setVars, histVars, faults,
                   calls, fetches, listFailed, taskFailed, indexVars>>

Unwound ==
    /\ pc = "unwind"
    /\ Running = {}
    /\ pc' = "aborted"
    /\ UNCHANGED <<disk, allpk, mem, listVars, workVars, poolVars, setVars, histVars, faults,
                   calls, fetches, listFailed, taskFailed, abortCause, indexVars>>

\* ------------------------------------------------- AutoSaveDict.__setitem__
\* processed_packages[url] = True: url is the first element of the zipped pair
MarkKey(pair) == pair[1]

\* the next assignment of the loops: ddebs[deb] = result for each result of the
\* batch, then processed_packages[url] = True
NextAssignment ==
    IF wq # << >> THEN [c |-> "ddebs", k |-> Head(wq)[1], v |-> Head(wq)[2]]
    ELSE [c |-> "pp", k |-> MarkKey(cur), v |-> TRUE]

\* dict.__setitem__(self, key, value)
SetItemMem ==
    /\ pc = "write"
    /\ LET a == NextAssignment
       IN /\ mem' = [mem EXCEPT ![a.c] = Put(@, a.k, a.v)]
          /\ setting' = [c |-> a.c, k |-> a.k]
          /\ writing' = [writing EXCEPT ![a.c] = @ \cup {"main"}]
    /\ wq' = (IF wq # << >> THEN Tail(wq) ELSE wq)
    /\ pc' = "set_dump"
    /\ UNCHANGED <<disk, allpk, listVars, workVars, debs, task, tmp, histVars, faults,
                   calls, fetches, listFailed, taskFailed, abortCause, indexVars>>

\* NamedTemporaryFile(delete=False), json.dump(self, f): the document goes to
\* the file object's buffer; what has reached the disk is the flushed prefix,
\* the whole document only when its length is a multiple of the buffer size
SetItemDump ==
    /\ pc = "set_dump"
    /\ \E flushed \in BOOLEAN :
         tmp' = (IF flushed THEN Json(mem[setting.c]) ELSE Partial)
    /\ pc' = "set_rename"
    /\ UNCHANGED <<disk, allpk, mem, listVars, workVars, poolVars, setting, writing, histVars,
                   faults, calls, fetches, listFailed, taskFailed, abortCause, indexVars>>

\* os.rename(f.name, self.path), inside the with block: f is still open
SetItemRename ==
    /\ pc = "set_rename"
    /\ disk' = [disk EXCEPT ![setting.c] = tmp]
    /\ tmp' = Absent
    /\ pc' = "set_close"
    /\ UNCHANGED <<allpk, mem, listVars, workVars, poolVars, setting, writing, histVars,
                   faults, calls, fetches, listFailed, taskFailed, abortCause, indexVars>>

\* leaving the with block closes f: the buffer is flushed into the renamed file
SetItemClose ==
    /\ pc = "set_close"
    /\ disk' = [disk EXCEPT ![setting.c] = Json(mem[setting.c])]
    /\ writing' = [writing EXCEPT ![setting.c] = @ \ {"main"}]
    /\ durable' = (IF setting.c = "ddebs" THEN durable \cup {setting.k} ELSE durable)
    /\ setting' = NoSet
    /\ pc' = (IF setting.c = "ddebs" THEN "write" ELSE "pkg")
    /\ UNCHANGED <<allpk, mem, listVars, workVars, poolVars, tmp, run, prev, clean, atStart,
                   faults, calls, fetches, listFailed, taskFailed, abortCause, indexVars>>

\* ------------------------------------------------- the process
Ended == {"done", "aborted", "crashed"}

\* the process is killed: memory is gone, the files stay as they are
Crash ==
    /\ pc \notin Ended
    /\ pc' = "crashed"
    /\ ResetMemory
    /\ UNCHANGED <<disk, allpk, histVars, faults, calls, fetches, listFailed, taskFailed,
                   abortCause, indexVars>>

\* a later invocation of the script
Restart ==
    /\ pc \in Ended
    /\ run < MaxRuns
    /\ run' = run + 1
    /\ prev' = pc
    /\ clean' = (clean /\ pc = "done" /\ faults = 0)
    /\ atStart' = durable
    /\ ResetMemory
    /\ pc' = "load_ddebs"
    /\ calls' = {}
    /\ fetches' = {}
    /\ listFailed' = {}
    /\ taskFailed' = {}
    /\ abortCause' = "none"
    /\ UNCHANGED <<disk, allpk, durable, faults, indexVars>>

ScraperNext ==
    \/ InitDdebs
    \/ InitProcessedPackages
    \/ PackageListCached
    \/ PackageListMain
    \/ PackageListTop
    \/ PackageListDump
    \/ PackageListReturn
    \/ FilterPackages
    \/ NextChunk
    \/ NextPackage
    \/ \E d \in AllDebs : WorkerStart(d)
    \/ \E d \in AllDebs : WorkerFinish(d)
    \/ CollectResults
    \/ CollectRaises
    \/ Unwound
    \/ SetItemMem
    \/ SetItemDump
    \/ SetItemRename
    \/ SetItemClose
    \/ Crash
    \/ Restart

\* ------------------------------------------------- the index (scrapedebs.py)
IndexIdle ==
    /\ ipc = "idle"
    /\ ddebsFile = EmptyMap
    /\ pkgCache = Absent
    /\ ddebsMtime = 0
    /\ cacheMtime = 0
    /\ iterOrder = << >>
    /\ id_map = EmptyMap
    /\ lastCall = [found |-> "none", read |-> FALSE]

MungeIdle ==
    /\ mpc = "idle"
    /\ raw_id = << >>
    /\ munged = << >>
    /\ again = << >>

\* the archives the resolver's ddebs file names
ResolveDebs == {"d1_amd64", "d2_i386"}

ResolveIdle ==
    /\ rpc = "idle"
    /\ missing_symbols = {}
    /\ debs_to_process = EmptyMap
    /\ planOrder = << >>
    /\ rtask = EmptyMap
    /\ taken = 0
    /\ zip = [kind |-> "absent", names |-> << >>]
    /\ file_list = << >>
    /\ fetched = [d \in ResolveDebs |-> 0]
    /\ rfaults = 0

Init == ScraperInit /\ IndexIdle /\ MungeIdle /\ ResolveIdle

Next == ScraperNext

Spec == Init /\ [][Next]_vars

\* ------------------------------------------------- munge_build_id
\* str.upper() on one character
Upper(c) ==
    CASE c = "a" -> "A" [] c = "b" -> "B" [] c = "c" -> "C"
      [] c = "d" -> "D" [] c = "e" -> "E" [] c = "f" -> "F"
      [] OTHER -> c

\* map(''.join, zip(*[iter(build_id.upper())]*2)): the characters two by two,
\* an odd last character dropped
Bytes(s) == [i \in 1..(Len(s) \div 2) |-> <<Upper(s[2 * i - 1]), Upper(s[2 * i])>>]

\* b[lo:hi] of Python, on 0-based bounds, cut to the length of b
PySlice(b, lo, hi) ==
    LET h == IF hi < Len(b) THEN hi ELSE Len(b)
    IN IF lo >= h THEN << >> ELSE [i \in 1..(h - lo) |-> b[lo + i]]

\* the bytes of a list left in their order
NotReversed(b) == b

Reversed(b) == [i \in 1..Len(b) |-> b[Len(b) + 1 - i]]

RECURSIVE Join(_)
Join(b) == IF b = << >> THEN << >> ELSE Head(b) \o Join(Tail(b))

munge_build_id(build_id) ==
    LET b == Bytes(build_id)
    IN Join(Reversed(PySlice(b, 0, 4)) \o Reversed(PySlice(b, 4, 6))
            \o Reversed(PySlice(b, 6, 8)) \o PySlice(b, 8, 16)) \o <<"0">>

\* munge_build_id on the build ids of the model, tabulated
BuildIds == {"idA", "idB", "idC", "idD", "md5"}

Munged == [id \in BuildIds |-> munge_build_id(Chars(id))]

\* ------------------------------------------------- make_build_id_map
\* bounds of the index inputs
MaxFacts == 2
MaxTime == 1

\* the archives and facts a ddebs file of the index inputs may hold
IdxPackages == {"d1_amd64", "d2_i386"}

IdxFacts == { <<"/usr/lib/libfoo.so", "idA">>, <<"/usr/lib/libfoo.so", "idB">>,
              <<"/usr/lib/libbar.so", "idC">>, <<"/usr/lib/libbar.so", "idA">> }

FactLists == UNION {[1..n -> IdxFacts] : n \in 0..MaxFacts}

\* a /tmp/packages.json left by an earlier run over another ddebs file
StaleMap == [k \in {Munged["idA"]} |-> <<"/usr/lib/libold.so", "d4_amd64">>]

\* an index that keeps the first fact written under a key
IdMapSetDefault(m, k, v) == IF k \in DOMAIN m THEN m ELSE Put(m, k, v)

\* id_map[munge_build_id(build_id)] = (filename, package)
IdMapPut(m, k, v) == Put(m, k, v)

\* for filename, build_id in data
RECURSIVE IndexFacts(_, _, _)
IndexFacts(m, package, data) ==
    IF data = << >> THEN m
    ELSE IndexFacts(IdMapPut(m, Munged[Head(data)[2]], <<Head(data)[1], package>>),
                    package, Tail(data))

\* for package, data in ddebs.iteritems(), in the order the dict iterates
RECURSIVE IndexPackages(_, _, _)
IndexPackages(m, ddebs, order) ==
    IF order = << >> THEN m
    ELSE IndexPackages(IndexFacts(m, Head(order), ddebs[Head(order)]), ddebs, Tail(order))

\* the orders a dict of these keys may iterate in
Orders(S) == {o \in [1..Cardinality(S) -> S] : Range(o) = S}

\* the comparison with >= in place of >
CacheNotOlder == pkgCache.kind # "absent" /\ cacheMtime >= ddebsMtime

\* the persisted copy is returned when it exists and is newer than the ddebs file
CacheIsFresh == pkgCache.kind # "absent" /\ cacheMtime > ddebsMtime

\* what the call found: the state of /tmp/packages.json against the ddebs file
Found ==
    IF pkgCache.kind = "absent" THEN "absent"
    ELSE IF cacheMtime < ddebsMtime THEN "older"
    ELSE IF cacheMtime = ddebsMtime THEN "equal"
    ELSE "newer"

NoCall == [found |-> "none", read |-> FALSE]

make_build_id_map ==
    /\ ipc = "start"
    /\ lastCall' = [found |-> Found, read |-> ~CacheIsFresh]
    /\ IF CacheIsFresh
       THEN /\ id_map' = pkgCache.doc
            /\ ipc' = "loaded"
            /\ UNCHANGED <<pkgCache, cacheMtime, iterOrder>>
       ELSE \E order \in Orders(DOMAIN ddebsFile) :
            \E now \in 0..MaxTime :
              /\ now >= ddebsMtime
              /\ now >= cacheMtime
              /\ iterOrder' = order
              /\ id_map' = IndexPackages(EmptyMap, ddebsFile, order)
              /\ pkgCache' = Json(id_map')
              /\ cacheMtime' = now
              /\ ipc' = "built"
    /\ UNCHANGED <<ddebsFile, ddebsMtime, scraperVars, mungeVars, resolveVars>>

\* scrapedebs.py is run again over the same files
RunAgain ==
    /\ ipc \in {"built", "loaded"}
    /\ ipc' = "start"
    /\ id_map' = EmptyMap
    /\ iterOrder' = << >>
    /\ lastCall' = NoCall
    /\ UNCHANGED <<ddebsFile, pkgCache, ddebsMtime, cacheMtime, scraperVars, mungeVars, resolveVars>>

IndexInit ==
    /\ ipc = "start"
    /\ ddebsFile \in [IdxPackages -> FactLists]
    /\ pkgCache \in {Absent, Json(StaleMap)}
    /\ ddebsMtime \in 0..MaxTime
    /\ cacheMtime \in 0..MaxTime
    /\ iterOrder = << >>
    /\ id_map = EmptyMap
    /\ lastCall = [found |-> "none", read |-> FALSE]

InitIndex == ScraperInit /\ IndexInit /\ MungeIdle /\ ResolveIdle

NextIndex ==
    \/ make_build_id_map
    \/ RunAgain

SpecIndex == InitIndex /\ [][NextIndex]_vars

\* ------------------------------------------------- munge_build_id alone
\* bound of the inputs: the identifiers readelf printed, rotated by 0..MaxShift
MaxShift == 39

Rotate(s, k) == [i \in 1..Len(s) |-> s[((i - 1 + k) % Len(s)) + 1]]

MungeInputs == {Rotate(Chars(id), k) : id \in {"idA", "idB", "idC"}, k \in 0..MaxShift}

MungeInit ==
    /\ mpc = "in"
    /\ raw_id \in MungeInputs
    /\ munged = << >>
    /\ again = << >>

\* debug ids are munged one call per fact (line 111)
Munge ==
    /\ mpc = "in"
    /\ munged' = munge_build_id(raw_id)
    /\ mpc' = "out"
    /\ UNCHANGED <<raw_id, again, scraperVars, idxVars, resolveVars>>

\* the same identifier met again, in another fact or another run
MungeAgain ==
    /\ mpc = "out"
    /\ again' = munge_build_id(raw_id)
    /\ mpc' = "twice"
    /\ UNCHANGED <<raw_id, munged, scraperVars, idxVars, resolveVars>>

InitMunge == ScraperInit /\ IndexIdle /\ MungeInit /\ ResolveIdle

NextMunge ==
    \/ Munge
    \/ MungeAgain

SpecMunge == InitMunge /\ [][NextMunge]_vars

\* ------------------------------------------------- the resolution pass
\* bounds of the pass: requests per run, failures per run
MaxRequests == 3
MaxResolveFaults == 1

\* ThreadPoolExecutor(max_workers=4)
max_workers == 4

\* the ddebs file given with --ddebs: libbar.so of the same build is in both
ResolveDdebs ==
    [d \in ResolveDebs |->
        IF d = "d1_amd64"
        THEN << <<"/usr/lib/libfoo.so", "idA">>, <<"/usr/lib/libbar.so", "idC">> >>
        ELSE << <<"/usr/lib/libqux.so", "idD">>, <<"/usr/lib/libbar.so", "idC">> >>]

\* the lines of the missing-symbols report that just_linux_symbols keeps; the
\* last names a raw identifier, which is no key of the index
Requests ==
    { <<"libfoo.so", Munged["idA"]>>, <<"libqux.so", Munged["idD"]>>,
      <<"libbar.so", Munged["idC"]>>, <<"libnone.so", Chars("idA")>> }

\* os.path.basename on the paths of the ddebs file
Basename(filename) ==
    CASE filename = "/usr/lib/libfoo.so" -> "libfoo.so"
      [] filename = "/usr/lib/libbar.so" -> "libbar.so"
      [] filename = "/usr/lib/libqux.so" -> "libqux.so"
      [] OTHER -> filename

\* os.path.join(f, debug_id, f + '.sym'), as its three components
make_sym_filename(filename, debug_id) ==
    LET f == Basename(filename)
    IN <<f, debug_id, f \o ".sym">>

\* a plan that keeps only the last entry of an archive
PlanOverwrite(plan, ddeb, entry) == Put(plan, ddeb, <<entry>>)

\* debs_to_process[ddeb].append(...) on a defaultdict(list)
PlanAppend(plan, ddeb, entry) ==
    Put(plan, ddeb, (IF ddeb \in DOMAIN plan THEN plan[ddeb] ELSE << >>) \o <<entry>>)

\* for f, debug_id in missing_symbols: res = build_id_map.get(debug_id, None) ...
RECURSIVE GroupByDeb(_, _, _)
GroupByDeb(plan, build_id_map, requests) ==
    IF requests = << >> THEN plan
    ELSE LET debug_id == Head(requests)[2]
         IN IF debug_id \in DOMAIN build_id_map
            THEN LET filename == build_id_map[debug_id][1]
                     ddeb == build_id_map[debug_id][2]
                     sym_filename == make_sym_filename(filename, debug_id)
                 IN GroupByDeb(PlanAppend(plan, ddeb, <<filename, sym_filename>>),
                               build_id_map, Tail(requests))
            ELSE GroupByDeb(plan, build_id_map, Tail(requests))

\* main after make_build_id_map has returned the index built from the ddebs
\* file, with the requests fetched
ResolveInit ==
    /\ rpc = "start"
    /\ missing_symbols \in {S \in SUBSET Requests : Cardinality(S) <= MaxRequests}
    /\ debs_to_process = EmptyMap
    /\ planOrder = << >>
    /\ rtask = EmptyMap
    /\ taken = 0
    /\ zip = [kind |-> "absent", names |-> << >>]
    /\ file_list = << >>
    /\ fetched = [d \in ResolveDebs |-> 0]
    /\ rfaults = 0

IndexBuilt ==
    /\ ipc = "built"
    /\ ddebsFile = ResolveDdebs
    /\ iterOrder \in Orders(ResolveDebs)
    /\ id_map = IndexPackages(EmptyMap, ddebsFile, iterOrder)
    /\ pkgCache = Json(id_map)
    /\ ddebsMtime = 0
    /\ cacheMtime = 0
    /\ lastCall = [found |-> "absent", read |-> TRUE]

\* lines 171-179: the plan, the set iterated in some order
MakePlan ==
    /\ rpc = "start"
    /\ \E order \in Orders(missing_symbols) :
         debs_to_process' = GroupByDeb(EmptyMap, id_map, order)
    /\ rpc' = "plan"
    /\ UNCHANGED <<missing_symbols, planOrder, rtask, taken, zip, file_list, fetched, rfaults,
                   scraperVars, idxVars, mungeVars>>

\* with zipfile.ZipFile('symbols.zip', 'w') ..., ThreadPoolExecutor(max_workers=4):
\* the file is created; executor.map submits one task per item of the plan
OpenAndSubmit ==
    /\ rpc = "plan"
    /\ zip' = [kind |-> "open", names |-> << >>]
    /\ planOrder' \in Orders(DOMAIN debs_to_process)
    /\ rtask' = [d \in DOMAIN debs_to_process |->
                   [st |-> "queued", needed |-> << >>, result |-> << >>,
                    outcome |-> "none", at |-> 0]]
    /\ rpc' = "pass"
    /\ UNCHANGED <<missing_symbols, debs_to_process, taken, file_list, fetched, rfaults,
                   scraperVars, idxVars, mungeVars>>

ResolveRunning == {d \in DOMAIN rtask : rtask[d].st = "running"}

ResolveQueued == SelectSeq(planOrder, LAMBDA d : rtask[d].st = "queued")

SymNames(files) == {files[i][2] : i \in DOMAIN files}

\* files = [(f, s) for (f, s) in files if not server_has_file(s)]
StillMissing(files, has) == SelectSeq(files, LAMBDA e : e[2] \notin has)

ResolveCanFail(outcome) == outcome \in {"ok", "have"} \/ rfaults < MaxResolveFaults

ResolveFault(outcome) ==
    rfaults' = (IF outcome \in {"ok", "have"} THEN rfaults ELSE rfaults + 1)

\* a worker takes the next task: process_deb up to the early return.  The HEAD
\* requests of server_has_file run before the try: a requests exception
\* leaves the task
TaskBegin(d) ==
    /\ rpc \in {"pass", "unwind"}
    /\ ResolveQueued # << >>
    /\ d = Head(ResolveQueued)
    /\ Cardinality(ResolveRunning) < max_workers
    /\ \E head \in {"have", "head"} :
       \E has \in SUBSET SymNames(debs_to_process[d]) :
         /\ ResolveCanFail(head)
         /\ ResolveFault(head)
         /\ LET files == StillMissing(debs_to_process[d], has)
            IN rtask' = [rtask EXCEPT ![d] =
                  IF head = "head"
                  THEN [@ EXCEPT !.st = "failed", !.outcome = "head"]
                  ELSE IF files = << >>
                  THEN [@ EXCEPT !.st = "done", !.outcome = "have"]
                  ELSE [@ EXCEPT !.st = "running", !.needed = files]]
    /\ UNCHANGED <<rpc, missing_symbols, debs_to_process, planOrder, taken, zip, file_list,
                   fetched, scraperVars, idxVars, mungeVars>>

\* what the environment may do to the rest of a task
ResolveOutcomes == {"ok", "empty", "fetch", "unpack", "dump", "oserror"}

\* the output of dump_syms for a file
Contents(filename) == "MODULE Linux " \o Basename(filename)

\* symbols.append((symbol_file, check_output([dump_syms, path]))) for each file;
\* with outcome "empty" dump_syms prints nothing for file number at
DumpAll(files, outcome, at) ==
    [i \in DOMAIN files |->
        <<files[i][2], IF outcome = "empty" /\ i = at THEN "" ELSE Contents(files[i][1])>>]

\* process_deb of scrapedebs.py after the early return: mkdtemp, fetch_to_file,
\* dpkg-deb | tar (check_call), dump_syms per file (check_output).
\* except subprocess.CalledProcessError: return [], whichever call raised;
\* any other exception (requests, OSError) leaves the task
process_deb_symbols(files, outcome, at) ==
    IF outcome = "fetch" THEN [raised |-> TRUE, value |-> << >>]
    ELSE IF outcome = "unpack" THEN [raised |-> FALSE, value |-> << >>]
    ELSE IF outcome = "dump" THEN [raised |-> FALSE, value |-> << >>]
    ELSE IF outcome = "oserror" THEN [raised |-> TRUE, value |-> << >>]
    ELSE [raised |-> FALSE, value |-> DumpAll(files, outcome, at)]

\* a download per requested file
FetchPerFile(files) == Len(files)

\* one archive is downloaded per call to fetch_to_file
FetchesOf(files) == 1

TaskEnd(d) ==
    /\ rpc \in {"pass", "unwind"}
    /\ d \in ResolveRunning
    /\ \E outcome \in ResolveOutcomes :
       \E at \in DOMAIN rtask[d].needed :
         /\ ResolveCanFail(outcome)
         /\ ResolveFault(outcome)
         /\ LET r == process_deb_symbols(rtask[d].needed, outcome, at)
            IN rtask' = [rtask EXCEPT ![d] =
                  [@ EXCEPT !.st = IF r.raised THEN "failed" ELSE "done",
                            !.result = r.value,
                            !.outcome = outcome,
                            !.at = IF outcome \in {"dump", "empty"} THEN at ELSE 0]]
    /\ fetched' = [fetched EXCEPT ![d] = @ + FetchesOf(rtask[d].needed)]
    /\ UNCHANGED <<rpc, missing_symbols, debs_to_process, planOrder, taken, zip, file_list,
                   scraperVars, idxVars, mungeVars>>

\* if symbol_file and contents
Kept(result) == SelectSeq(result, LAMBDA e : e[2] # "")

Names(result) == [i \in DOMAIN result |-> result[i][1]]

\* for result in executor.map(...): the next result in submission order; a
\* task that raised re-raises here, and the generator cancels what is pending
TakeResult ==
    /\ rpc = "pass"
    /\ taken < Len(planOrder)
    /\ LET d == planOrder[taken + 1]
       IN /\ rtask[d].st \in {"done", "failed"}
          /\ IF rtask[d].st = "done"
             THEN /\ file_list' = file_list \o Names(Kept(rtask[d].result))
                  /\ zip' = [zip EXCEPT !.names = @ \o Names(Kept(rtask[d].result))]
                  /\ taken' = taken + 1
                  /\ UNCHANGED <<rpc, rtask>>
             ELSE /\ rpc' = "unwind"
                  /\ rtask' = [e \in DOMAIN rtask |->
                                 IF rtask[e].st = "queued"
                                 THEN [rtask[e] EXCEPT !.st = "cancelled"]
                                 ELSE rtask[e]]
                  /\ UNCHANGED <<file_list, zip, taken>>
    /\ UNCHANGED <<missing_symbols, debs_to_process, planOrder, fetched, rfaults,
                   scraperVars, idxVars, mungeVars>>

\* the exception leaves the with statement: the executor waits for the
\* running tasks, the ZipFile is closed, and main ends with the traceback
ExitWithError ==
    /\ rpc = "unwind"
    /\ ResolveRunning = {}
    /\ zip' = [zip EXCEPT !.kind = "closed"]
    /\ rpc' = "aborted"
    /\ UNCHANGED <<missing_symbols, debs_to_process, planOrder, rtask, taken, file_list,
                   fetched, rfaults, scraperVars, idxVars, mungeVars>>

Manifest == <<"ubuntusyms-1.0-Linux-symbols.txt">>

\* zf.writestr(index file), then the with statement closes the archive
WriteIndexFile ==
    /\ rpc = "pass"
    /\ taken = Len(planOrder)
    /\ zip' = [kind |-> "closed", names |-> zip.names \o <<Manifest>>]
    /\ rpc' = "closed"
    /\ UNCHANGED <<missing_symbols, debs_to_process, planOrder, rtask, taken, file_list,
                   fetched, rfaults, scraperVars, idxVars, mungeVars>>

\* if file_list: ... else: os.unlink('symbols.zip')
KeepOrUnlink ==
    /\ rpc = "closed"
    /\ zip' = (IF file_list # << >> THEN zip ELSE [kind |-> "absent", names |-> << >>])
    /\ rpc' = "finished"
    /\ UNCHANGED <<missing_symbols, debs_to_process, planOrder, rtask, taken, file_list,
                   fetched, rfaults, scraperVars, idxVars, mungeVars>>

InitResolve == ScraperInit /\ IndexBuilt /\ MungeIdle /\ ResolveInit

NextResolve ==
    \/ MakePlan
    \/ OpenAndSubmit
    \/ \E d \in ResolveDebs : TaskBegin(d)
    \/ \E d \in ResolveDebs : TaskEnd(d)
    \/ TakeResult
    \/ ExitWithError
    \/ WriteIndexFile
    \/ KeepOrUnlink

SpecResolve == InitResolve /\ [][NextResolve]_vars

\* ------------------------------------------------- claims about the scraper
\* the keys of a cache file as a later run would load it
Persisted(c) == IF disk[c].kind = "json" THEN DOMAIN disk[c].doc ELSE {}

X86Debs(p) == {d \in Range(Listing(p)) : ArchOf(d) \in X86}

AllX86Debs == UNION {X86Debs(p) : p \in AllPackages}

RunOver == pc \in {"done", "aborted"}

\* C1: a run that follows a terminated run, with no network or tool failure
\* anywhere, has called process_deb, when it ends, for exactly the archives
\* whose results had not been persisted (stated as the claim states it).
C1_Resumable ==
    (run > 1 /\ prev = "crashed" /\ faults = 0 /\ RunOver)
        => calls = AllX86Debs \ atStart

\* C2: a run that follows only completed, failure-free runs fetches no listing
\* and no archive (stated as the claim states it).
C2_SecondRunFetchesNothing ==
    (run > 1 /\ clean) => (fetches = {} /\ calls = {})

\* C3: when the process is killed, each cache file is absent or decodes to a
\* complete mapping, and holds every key whose set had returned (stated as the
\* claim states it).
C3_SetIsCrashAtomic ==
    pc = "crashed" =>
        /\ \A c \in Caches : disk[c].kind # "partial"
        /\ durable \subseteq Persisted("ddebs")

\* C4: constructing a cache never ends the run, whatever the file holds
\* (stated as the claim states it).
C4_CacheLoadNeverFatal ==
    ~(pc = "aborted" /\ abortCause = "cache_load")

\* the main thread waits in future.result() for a task not yet finished
MainBlocked == pc = "wait" /\ InFlight # {}

\* C5: while the main thread is blocked on a task still in flight, no task
\* that has completed is missing from the persisted ddebs cache (stated as the
\* claim states it).
C5_PersistedOnCompletion ==
    MainBlocked => \A d \in DOMAIN task : task[d].st = "done" => d \in Persisted("ddebs")

\* the other x86 archives of the package directory that lists d
Siblings(d) ==
    UNION {X86Debs(p) : p \in {q \in AllPackages : d \in Range(Listing(q))}} \ {d}

\* C6: when a run has ended and an archive failed, the run was not ended by
\* that failure, the other x86 archives of the same package directory are in
\* the ddebs cache, and the failed one is not (stated as the claim states it).
C6_FailureIsolated ==
    (RunOver /\ taskFailed # {}) =>
        /\ abortCause # "task"
        /\ \A d \in taskFailed :
              /\ d \notin Persisted("ddebs")
              /\ \A s \in Siblings(d) \ taskFailed : s \in Persisted("ddebs")

\* C7: a package directory whose listing fetch failed in this run does not end
\* the run and is not a key of processed_packages (stated as the claim states
\* it).
C7_FailedListingRetried ==
    \A p \in listFailed :
        /\ abortCause # "listing"
        /\ p \notin DOMAIN mem["pp"]
        /\ p \notin Persisted("pp")

\* C8: for each cache, at most one thread is inside __setitem__ (the update of
\* the dict, the dump to the temporary file, the rename) at any time.
C8_SingleWriter ==
    \A c \in Caches : Cardinality(writing[c]) <= 1

\* a result of a batch of several concurrently processed archives is being
\* renamed into place
C8_Witness ==
    /\ pc = "set_rename"
    /\ setting.c = "ddebs"
    /\ writing["ddebs"] = {"main"}
    /\ Cardinality(DOMAIN task) > 1

\* the results that have completed and that the for loop has not yet stored
Pending == {d \in DOMAIN task : task[d].st = "done" /\ d \notin DOMAIN mem["ddebs"]}

\* C9 as stated: at most cpu_count() results are completed and not yet written.
C9_ChunkBound ==
    Cardinality(Pending) <= ChunkSize

\* the x86 archives of the package directory being processed
CurrentX86 == IF cur = NoPair THEN {} ELSE X86Debs(cur[2])

\* C9, amended: the results completed and not yet written are results of x86
\* archives of the one package directory being processed, so at most as many
\* as that directory lists.
C9_PackageBound ==
    /\ Pending \subseteq CurrentX86
    /\ Cardinality(Pending) <= Cardinality(CurrentX86)

\* more results than the chunk size wait for the for loop
C9_Witness ==
    /\ pc = "wait"
    /\ Cardinality(Pending) > ChunkSize

\* C16: a task on which the identifier probe failed for a file has returned,
\* not raised (stated as the claim states it).
C16_ProbeFailureContained ==
    \A d \in DOMAIN task : task[d].outcome = "probe" => task[d].st = "done"

\* C18: with no network or tool failure in the history, every package
\* directory that is a key of the persisted processed_packages cache has all
\* the x86 archives of its listing as keys of the persisted ddebs cache, in
\* every state outside an assignment in progress, crashes and restarts
\* included (stated as the claim states it).
C18_MarkedAfterArchives ==
    (faults = 0 /\ setting = NoSet) =>
        \A p \in Persisted("pp") : X86Debs(p) \subseteq Persisted("ddebs")

\* C19: the key of a processed_packages assignment is the url of the package
\* directory whose archives were just stored, and a run that completes has
\* every url of its work list as a key (stated as the claim states it).
C19_MarkMatchesPackage ==
    /\ (setting # NoSet /\ setting.c = "pp") => setting.k = cur[2]
    /\ pc = "done" => Range(package_urls) \subseteq DOMAIN mem["pp"]

\* C20: with no network failure in the history, the list scrape_package_list
\* returns in a run that follows a terminated run holds every package
\* directory of the repository (stated as the claim states it).
C20_PackageListComplete ==
    (run > 1 /\ faults = 0 /\ pc = "filter") => Range(package_list) = AllPackages

\* ------------------------------------------------- claims about the index
\* the facts of the ddebs file in the order the build wrote them
RECURSIVE Written(_)
Written(order) ==
    IF order = << >> THEN << >>
    ELSE [i \in DOMAIN ddebsFile[Head(order)] |->
            [id |-> ddebsFile[Head(order)][i][2],
             path |-> ddebsFile[Head(order)][i][1],
             owner |-> Head(order)]] \o Written(Tail(order))

\* the last fact written under the key of the i-th one
LastWith(W, key(_), i) ==
    LET last == CHOOSE j \in DOMAIN W :
                    /\ key(W[j]) = key(W[i])
                    /\ \A l \in DOMAIN W : key(W[l]) = key(W[i]) => l <= j
    IN <<W[last].path, W[last].owner>>

RawKey(f) == Chars(f.id)

MungedKey(f) == Munged[f.id]

\* C10 as stated: after the index is built from the ddebs file, every fact's
\* identifier, as stored, is a key of the index and maps to the (path, owner) of
\* the last fact written with that identifier.
C10_LookupByStoredId ==
    ipc = "built" =>
        LET W == Written(iterOrder)
        IN \A i \in DOMAIN W :
              /\ RawKey(W[i]) \in DOMAIN id_map
              /\ id_map[RawKey(W[i])] = LastWith(W, RawKey, i)

\* C10, amended: after the index is built from the ddebs file, the munged form
\* of every fact's identifier is a key of the index and maps to the (path,
\* owner) of the last fact written whose identifier munges to the same key.
C10_LookupByMungedId ==
    ipc = "built" =>
        LET W == Written(iterOrder)
        IN \A i \in DOMAIN W :
              /\ MungedKey(W[i]) \in DOMAIN id_map
              /\ id_map[MungedKey(W[i])] = LastWith(W, MungedKey, i)

\* an index built from two archives whose facts carry different identifiers
\* that munge to one key
C10_Witness ==
    /\ ipc = "built"
    /\ \E p, q \in DOMAIN ddebsFile :
       \E i \in DOMAIN ddebsFile[p], j \in DOMAIN ddebsFile[q] :
          /\ p # q
          /\ ddebsFile[p][i][2] # ddebsFile[q][j][2]
          /\ ddebsFile[p][i][1] # ddebsFile[q][j][1]
          /\ Munged[ddebsFile[p][i][2]] = Munged[ddebsFile[q][j][2]]

\* C15 as stated: a copy older than the ddebs file is rebuilt from it; a copy
\* that exists and is not older, equal times included, is returned verbatim
\* without reading the ddebs file.
C15_FreshUnlessOlder ==
    /\ lastCall.found = "older" => (ipc = "built" /\ lastCall.read)
    /\ lastCall.found \in {"equal", "newer"} =>
          (ipc = "loaded" /\ ~lastCall.read /\ id_map = pkgCache.doc)

\* C15, amended: the copy is returned verbatim, the ddebs file unread, only
\* when it exists and is strictly newer than the ddebs file; when it is
\* absent, older or of equal time the index is rebuilt from the ddebs file and
\* persisted.
C15_FreshOnlyIfNewer ==
    /\ lastCall.found = "newer" =>
          (ipc = "loaded" /\ ~lastCall.read /\ id_map = pkgCache.doc)
    /\ lastCall.found \in {"absent", "older", "equal"} =>
          /\ ipc = "built"
          /\ lastCall.read
          /\ id_map = IndexPackages(EmptyMap, ddebsFile, iterOrder)
          /\ pkgCache = Json(id_map)

\* a persisted copy with the modification time of the ddebs file was rebuilt
C15_Witness ==
    /\ lastCall.found = "equal"
    /\ ipc = "built"
    /\ pkgCache.doc # StaleMap

\* ------------------------------------------------- claims about munge_build_id
\* the character of the input that each of the first 32 characters of the
\* output is: bytes 4,3,2,1, then 6,5, then 8,7, then 9..16
MungePositions ==
    <<7, 8, 5, 6, 3, 4, 1, 2,  11, 12, 9, 10,  15, 16, 13, 14,
      17, 18, 19, 20, 21, 22, 23, 24, 25, 26, 27, 28, 29, 30, 31, 32>>

\* C17: the output for a 40-character identifier has 33 characters: the first
\* four bytes in reversed byte order, bytes 5-6 reversed, bytes 7-8 reversed,
\* bytes 9-16 in order, upper-cased, then "0"; a second evaluation on the
\* same input gives the same output.
C17_MungeLayout ==
    (mpc \in {"out", "twice"} /\ Len(raw_id) = 40) =>
        /\ Len(munged) = 33
        /\ \A i \in 1..32 : munged[i] = Upper(raw_id[MungePositions[i]])
        /\ munged[33] = "0"
        /\ mpc = "twice" => again = munged

\* the identifier of the source's comment has been munged, twice
C17_Witness ==
    /\ mpc = "twice"
    /\ raw_id = Chars("idA")
    /\ munged = <<"6","C","1","0","C","2","9","9","1","8","4","4","3","5","9","E",
                  "4","E","1","8","2","6","A","A","2","8","5","A","0","C","C","F","0">>
    /\ again = munged

\* ------------------------------------------------- claims about the resolution pass
\* the requests whose identifier is a key of the index, and their owners
Hits == {r \in missing_symbols : r[2] \in DOMAIN id_map}

Owner(r) == id_map[r[2]][2]

\* (path, <basename>/<identifier>/<basename>.sym) of a hit
EntryOf(r) ==
    LET path == id_map[r[2]][1]
    IN <<path, <<Basename(path), r[2], Basename(path) \o ".sym">>>>

PlanMade == rpc \notin {"idle", "start"}

\* C11: once the plan is built, every hit has its entry in the list under its
\* owner, every entry of the plan is the entry of a hit of that owner, each
\* list is as long as its owner has hits, and the keys of the plan are the
\* owners of the hits.
C11_PlanComplete ==
    PlanMade =>
        /\ DOMAIN debs_to_process = {Owner(r) : r \in Hits}
        /\ \A r \in Hits :
              \E i \in DOMAIN debs_to_process[Owner(r)] :
                  debs_to_process[Owner(r)][i] = EntryOf(r)
        /\ \A d \in DOMAIN debs_to_process :
              /\ \A i \in DOMAIN debs_to_process[d] :
                    \E r \in Hits : Owner(r) = d /\ debs_to_process[d][i] = EntryOf(r)
              /\ Len(debs_to_process[d]) = Cardinality({r \in Hits : Owner(r) = d})

\* a plan with two files under one archive, built from requests one of which
\* has no key in the index
C11_Witness ==
    /\ PlanMade
    /\ \E d \in DOMAIN debs_to_process : Len(debs_to_process[d]) = 2
    /\ missing_symbols \ Hits # {}

\* C12 as stated: in a run that ended without failure, every archive of the
\* plan was fetched exactly once and every other archive never.
C12_FetchedExactlyOnce ==
    (rpc = "finished" /\ rfaults = 0) =>
        \A d \in ResolveDebs :
            fetched[d] = (IF d \in DOMAIN debs_to_process THEN 1 ELSE 0)

\* C12, amended: no archive is fetched more than once, an archive with no hit
\* is never fetched, and in a run that ended normally an archive of the plan
\* was fetched exactly when one of its requested symbol files was not already
\* on the symbol server.
C12_FetchedAtMostOnce ==
    /\ \A d \in ResolveDebs : fetched[d] <= 1
    /\ PlanMade => \A d \in ResolveDebs \ DOMAIN debs_to_process : fetched[d] = 0
    /\ rpc = "finished" =>
          \A d \in DOMAIN rtask : (fetched[d] = 1) <=> (rtask[d].needed # << >>)

\* a finished run: an archive with two requested files was fetched once, an
\* archive whose files the server already had was not fetched
C12_Witness ==
    /\ rpc = "finished"
    /\ \E d \in DOMAIN rtask : Len(rtask[d].needed) = 2 /\ fetched[d] = 1
    /\ \E d \in DOMAIN rtask : rtask[d].outcome = "have" /\ fetched[d] = 0

\* C13: a task in which dump_syms exited non-zero for one file has returned
\* the artifacts of its other requested files (stated as the claim states it).
C13_OnlyFailedFileDropped ==
    \A d \in DOMAIN rtask :
        (rtask[d].st = "done" /\ rtask[d].outcome = "dump") =>
            Range(Names(rtask[d].result))
                = SymNames(rtask[d].needed) \ {rtask[d].needed[rtask[d].at][2]}

\* C14: when a run has ended, normally or by an error, symbols.zip is on disk
\* only if an artifact was produced, and then it is the complete archive
\* (stated as the claim states it).
C14_OutputOnlyWithArtifacts ==
    (rpc \in {"finished", "aborted"} /\ zip.kind # "absent") =>
        /\ file_list # << >>
        /\ \E i \in DOMAIN zip.names : zip.names[i] = Manifest

====
